---- MODULE Spec2Model ----
(***************************************************************************)
(* Model of src/review_pr.py: the fixer fix_task_func (splitlines, the     *)
(* per-issue loop, the join) and the orchestration of main with            *)
(* get_pr_files, review_task_func, run_linter and create_fix_pr.           *)
(*                                                                         *)
(* A text is a sequence of tokens.  A token is one character ("a", "\n",   *)
(* "\r", "/", ".", "-") or a literal the program writes as a whole (the    *)
(* comment prefix, the placeholder docstring).                             *)
(***************************************************************************)
EXTENDS Integers, Sequences, FiniteSets, TLC

\* ------------------------------------------------------------------ bounds
\* Longest source text (in characters) given to fix_task_func.
MaxLen == 2
\* Longest list of finding lines given to fix_task_func.
MaxIssues == 2
\* Largest row a finding line reports (rows are \d+, so 0 is possible).
MaxRow == 2

\* --------------------------------------------------------------- variables
VARIABLES
    \* fix_task_func (lines 179-207)
    file_content,   \* the source text (main's file_content, the fixer's argument)
    issues,         \* the finding lines (main's issues, the fixer's argument)
    fpc,            \* position in fix_task_func: idle, entry, loop, except, done
    lines,          \* file_content.splitlines(), the snapshot taken at entry
    fixed_lines,    \* lines.copy(), mutated by the fixes
    comments,       \* the notes
    pos,            \* 1-based position of the for loop in issues
    fix_result      \* the returned dict, or NoResult

fixVars == <<file_content, issues, fpc, lines, fixed_lines, comments, pos, fix_result>>

VARIABLES
    \* main (lines 263-321) and what it calls
    GITHUB_ACTIONS, \* os.getenv("GITHUB_ACTIONS") == "true"
    pc,             \* position in main and create_fix_pr
    pr_files,       \* the filenames get_pr_files returned
    idx,            \* 1-based position of the for loop in pr_files
    flake8_out,     \* what flake8 prints for file_content when it runs
    review_comments,\* the text review_task_func returned
    fix_pr_number,  \* what create_fix_pr returned, 0 for None
    branches,       \* the host: the fix branches that exist
    log,            \* the host: the writes that succeeded, in order
    \* history, for the properties
    fetch_log,      \* the filenames whose content fetch was attempted, in order
    events,         \* kinds of failure that happened in this run
    cur             \* what happened for the file of the current iteration

mainVars == <<GITHUB_ACTIONS, pc, pr_files, idx, flake8_out, review_comments,
              fix_pr_number, branches, log, fetch_log, events, cur>>

vars == <<fixVars, mainVars>>

\* ------------------------------------------------------------------- texts
Alphabet == {"a", "\n", "\r"}

\* The f-string prefix of line 198 and the literal of line 201, each one token.
RemovedPrefix == "# Removed unused variable: "
Docstring == "\"\"\"Sample docstring.\"\"\""

\* All sequences over S of length at most n.
SeqUpTo(S, n) == UNION {[1..m -> S] : m \in 0..n}

\* str.splitlines(): "\n", "\r" and "\r\n" end a line; the terminators are
\* dropped and a text that ends with a terminator has no empty last line.
RECURSIVE SplitFrom(_, _, _)
SplitFrom(s, acc, i) ==
    IF i > Len(s) THEN (IF acc = <<>> THEN <<>> ELSE <<acc>>)
    ELSE IF s[i] = "\r" /\ i + 1 <= Len(s) /\ s[i + 1] = "\n"
         THEN <<acc>> \o SplitFrom(s, <<>>, i + 2)
    ELSE IF s[i] \in {"\n", "\r"}
         THEN <<acc>> \o SplitFrom(s, <<>>, i + 1)
    ELSE SplitFrom(s, Append(acc, s[i]), i + 1)

splitlines(s) == SplitFrom(s, <<>>, 1)

\* '\n'.join(ls)
RECURSIVE join(_)
join(ls) ==
    IF ls = <<>> THEN <<>>
    ELSE IF Len(ls) = 1 THEN ls[1]
    ELSE ls[1] \o <<"\n">> \o join(Tail(ls))

\* Python list indexing: k >= 0 counts from the front, k < 0 from the back.
PyIndex(seq, k) == IF k >= 0 THEN k + 1 ELSE Len(seq) + k + 1

PyInRange(seq, k) == PyIndex(seq, k) >= 1 /\ PyIndex(seq, k) <= Len(seq)

\* list.insert(0, x)
InsertFront(seq, x) == <<x>> \o seq

\* ---------------------------------------------------------- finding lines
\* A line of linter output.  fmt = "record" is a line of the form
\* <path>:<row>:<col>: <code> <text>; fmt = "other" is any other line.
UnusedMsg == "local variable 'x' is assigned to but never used"
UndefinedMsg == "undefined name 'x'"
DocMsg == "missing docstring in public module"
PlainMsg == "Missing docstring in public module"
BlankMsg == "expected 2 blank lines, found 1"

\* The code and text pairs the finding lines are drawn from.
FindingKinds ==
    {<<"F841", UnusedMsg>>, <<"F841", UndefinedMsg>>, <<"F841", BlankMsg>>,
     <<"D100", DocMsg>>, <<"D100", PlainMsg>>, <<"E302", BlankMsg>>}

OtherLine == [fmt |-> "other", row |-> 0, code |-> "", text |-> ""]

RecordLine(row, kind) == [fmt |-> "record", row |-> row, code |-> kind[1], text |-> kind[2]]

RecordLines == {RecordLine(row, kind) : row \in 0..MaxRow, kind \in FindingKinds}

IssueLines == RecordLines \cup {OtherLine}

\* re.match(r'.*?:(\d+):(\d+): (\w+) (.*)', issue), line 187
ReMatch(issue) == issue.fmt = "record"

\* 'undefined name' in message, line 194
HasUndefinedName(message) == message = UndefinedMsg

\* 'missing docstring' in message (case-sensitive), line 200
HasMissingDocstring(message) == message = DocMsg

\* re.search(r"'([^']+)'", message), line 195: the quoted name, "" for no match
QuotedName(message) == IF message \in {UnusedMsg, UndefinedMsg} THEN "x" ELSE ""

\* ----------------------------------------------------------- fix_task_func
NoResult == [fixed_content |-> <<>>, comments |-> <<>>, returned |-> FALSE]

\* line 199 and line 202
RemovedNote(n, name) == [line |-> n, note |-> "Removed unused variable", name |-> name]
DocstringNote == [line |-> 1, note |-> "Added missing docstring", name |-> ""]

\* line 193, mutated: an off-by-one in the range test
InRangeTestInclusive(line_num, ls) == line_num <= Len(ls)

\* line 193: if line_num < len(lines)
InRangeTest(line_num, ls) == line_num < Len(ls)

\* line 198, mutated: the fix comments out the current text of the output line
CommentedLineCurrent(ls, fl, line_num) == <<RemovedPrefix>> \o fl[PyIndex(fl, line_num)]

\* line 198: f"# Removed unused variable: {lines[line_num]}"
CommentedLine(ls, fl, line_num) == <<RemovedPrefix>> \o ls[PyIndex(ls, line_num)]

\* lines 187-202: the body of the for loop for one finding line.  st holds
\* fixed_lines, comments and raised (an exception left the loop).
ApplyIssue(ls, st, issue) ==
    IF ~ReMatch(issue) THEN st
    ELSE
    LET line_num == issue.row - 1
        code == issue.code
        message == issue.text
    IN  IF ~InRangeTest(line_num, ls) THEN st
        ELSE IF code = "F841" /\ ~HasUndefinedName(message) THEN
            IF QuotedName(message) = "" THEN st
            ELSE IF ~PyInRange(ls, line_num)
                 THEN [st EXCEPT !.raised = TRUE]         \* IndexError
            ELSE [fixed_lines |->
                      [st.fixed_lines EXCEPT ![PyIndex(st.fixed_lines, line_num)] =
                          CommentedLine(ls, st.fixed_lines, line_num)],
                  comments |->
                      Append(st.comments, RemovedNote(line_num + 1, QuotedName(message))),
                  raised |-> FALSE]
        ELSE IF code = "D100" /\ HasMissingDocstring(message) THEN
            [fixed_lines |-> InsertFront(st.fixed_lines, <<Docstring>>),
             comments |-> Append(st.comments, DocstringNote),
             raised |-> FALSE]
        ELSE st

\* lines 182-184
FixEnter ==
    /\ fpc = "entry"
    /\ lines' = splitlines(file_content)
    /\ fixed_lines' = splitlines(file_content)
    /\ comments' = <<>>
    /\ pos' = 1
    /\ fpc' = "loop"
    /\ UNCHANGED <<file_content, issues, fix_result>>
    /\ UNCHANGED mainVars

\* lines 186-202: one iteration of the loop
FixIssue ==
    /\ fpc = "loop"
    /\ pos <= Len(issues)
    /\ LET st == ApplyIssue(lines,
                            [fixed_lines |-> fixed_lines, comments |-> comments,
                             raised |-> FALSE],
                            issues[pos])
       IN  /\ fixed_lines' = st.fixed_lines
           /\ comments' = st.comments
           /\ fpc' = IF st.raised THEN "except" ELSE "loop"
    /\ pos' = pos + 1
    /\ UNCHANGED <<file_content, issues, lines, fix_result>>
    /\ UNCHANGED mainVars

\* line 204
FixReturn ==
    /\ fpc = "loop"
    /\ pos > Len(issues)
    /\ fix_result' = [fixed_content |-> join(fixed_lines), comments |-> comments,
                      returned |-> TRUE]
    /\ fpc' = "done"
    /\ UNCHANGED <<file_content, issues, lines, fixed_lines, comments, pos>>
    /\ UNCHANGED mainVars

\* lines 205-207
FixExcept ==
    /\ fpc = "except"
    /\ fix_result' = [fixed_content |-> file_content, comments |-> <<>>,
                      returned |-> TRUE]
    /\ fpc' = "done"
    /\ UNCHANGED <<file_content, issues, lines, fixed_lines, comments, pos>>
    /\ UNCHANGED mainVars

\* fix_task_func on every bounded source text and finding list
InitFix ==
    /\ file_content \in SeqUpTo(Alphabet, MaxLen)
    /\ issues \in SeqUpTo(IssueLines, MaxIssues)
    /\ fpc = "entry"
    /\ lines = <<>>
    /\ fixed_lines = <<>>
    /\ comments = <<>>
    /\ pos = 1
    /\ fix_result = NoResult
    /\ GITHUB_ACTIONS = TRUE
    /\ pc = "idle"
    /\ pr_files = <<>>
    /\ idx = 1
    /\ flake8_out = <<>>
    /\ review_comments = [kind |-> "none", path |-> <<>>]
    /\ fix_pr_number = 0
    /\ branches = {}
    /\ log = <<>>
    /\ fetch_log = <<>>
    /\ events = {}
    /\ cur = <<>>

NextFix == FixEnter \/ FixIssue \/ FixReturn \/ FixExcept

SpecFix == InitFix /\ [][NextFix]_vars

\* The call fix_task_func(file_content, issues, path) as main makes it:
\* lines 182-207 from entry to return.
RECURSIVE FixLoop(_, _, _, _)
FixLoop(ls, st, iss, p) ==
    IF p > Len(iss) \/ st.raised THEN st
    ELSE FixLoop(ls, ApplyIssue(ls, st, iss[p]), iss, p + 1)

fix_task_func(content, iss) ==
    LET ls == splitlines(content)
        st == FixLoop(ls, [fixed_lines |-> ls, comments |-> <<>>, raised |-> FALSE], iss, 1)
    IN  IF st.raised
        THEN [fixed_content |-> content, comments |-> <<>>, returned |-> TRUE]
        ELSE [fixed_content |-> join(st.fixed_lines), comments |-> st.comments,
              returned |-> TRUE]

\* -------------------------------------------------------------------- main
\* Most files a pull request lists.
MaxFiles == 2

\* int(os.getenv("PR_NUMBER", "1")), line 35
PR_NUMBER == 1

\* Filenames of the pull request, as texts.
PathSlash == <<"a", "/", "b", ".", "p", "y">>
PathDash == <<"a", "-", "b", ".", "p", "y">>
PathOther == <<"b", ".", "p", "y">>
PathDoc == <<"a", ".", "m", "d">>

FileNames == {PathSlash, PathDash, PathOther, PathDoc}

\* The lists of distinct filenames a pull request can hold.
FileLists ==
    {fs \in SeqUpTo(FileNames, MaxFiles) :
        \A i, j \in 1..Len(fs) : i # j => fs[i] # fs[j]}

\* f.filename.endswith('.py'), line 150
EndsWithPy(name) ==
    /\ Len(name) >= 3
    /\ SubSeq(name, Len(name) - 2, Len(name)) = <<".", "p", "y">>

\* A call of the host API returns, raises github.GithubException, or raises
\* something else (a transport error), which only main's handler catches.
HostOutcomes == {"ok", "GithubException", "Exception"}

\* lines 147-157, mutated: the handler returns what was listed
get_pr_files_uncaught(out, files) == SelectSeq(files, EndsWithPy)

\* lines 147-157: the Python files of the pull request, [] when the host fails
get_pr_files(out, files) ==
    IF out = "ok" THEN SelectSeq(files, EndsWithPy) ELSE <<>>

\* The content the host serves for a file (two lines), with what flake8
\* prints for it: nothing, one unused-variable finding for its last line, or
\* one finding no rule fixes.
MainContents == {<<"a", "\n", "a", "a">>}

Flake8Reports(content) ==
    {<<>>, <<RecordLine(1, <<"E302", BlankMsg>>)>>}
    \cup {<<RecordLine(Len(splitlines(content)), <<"F841", UnusedMsg>>)>>}

FileVersions ==
    UNION {{[content |-> c, report |-> r] : r \in Flake8Reports(c)} : c \in MainContents}

\* lines 118-143: the stdout lines of flake8, or [] when the run failed
run_linter(out) == {out, <<>>}

\* line 164, line 174 and line 177: the three texts review_task_func returns
NoIssuesFound(path) == [kind |-> "no_issues", path |-> path]
LLMResponse(path) == [kind |-> "llm", path |-> <<>>]
FailedToGenerate(path) == [kind |-> "failed", path |-> path]

NoReview == [kind |-> "none", path |-> <<>>]

\* str.replace(old, new) on a text, old one character
Replace(text, old, new) == [i \in 1..Len(text) |-> IF text[i] = old THEN new ELSE text[i]]

\* line 224: f"fix-pr-{pr_number}-{file_path.replace('/', '-').replace('.', '-')}"
BranchName(pr_number, file_path) ==
    <<"fix-pr-", pr_number, "-">> \o Replace(Replace(file_path, "/", "-"), ".", "-")

\* line 278, mutated: a failed fetch leaves the loop
OnFetchErrorBreak(i, n) == "done"

\* line 278: the for loop goes on to the next file, or ends
ContinueLoop(i, n) == IF i + 1 > n THEN "done" ELSE "fetch"

\* lines 283-285: continue
OnFetchError(i, n) == ContinueLoop(i, n)

\* line 308, mutated: the test is inverted
NoFixes(fix_comments) == fix_comments = <<>>

\* line 308: if fix_comments
HasFixes(fix_comments) == fix_comments # <<>>

NewCur == [path |-> <<>>, fetch |-> "none", review_saw |-> "none", review_post |-> "none",
           lint_runs |-> 0, llm_calls |-> 0, posts |-> 0, fix_calls |-> 0,
           fixpr_calls |-> 0]

\* A write the host accepted.
LogEntry(op, path, what) == [op |-> op, file |-> path, what |-> what]

PullsCreated == Len(SelectSeq(log, LAMBDA e : e.op = "create_pull"))

\* lines 319-321: main's handler logs and calls sys.exit(1)
Abort ==
    /\ pc' = "exit1"
    /\ events' = events \cup {"exception"}
    /\ UNCHANGED <<GITHUB_ACTIONS, pr_files, idx, flake8_out, review_comments,
                   fix_pr_number, branches, log, cur, fixVars>>

\* The iteration for this file ends and the loop goes on (line 278).
NextFile ==
    /\ idx' = idx + 1
    /\ pc' = ContinueLoop(idx, Len(pr_files))

\* lines 266-269: get_pr_files(PR_NUMBER), and the return when it is empty
GetPrFiles ==
    /\ pc = "start"
    /\ \E out \in HostOutcomes, files \in FileLists :
        IF out = "Exception" THEN Abort /\ UNCHANGED fetch_log
        ELSE /\ pr_files' = get_pr_files(out, files)
             /\ events' = IF out = "ok" THEN events ELSE events \cup {"list_failed"}
             /\ pc' = IF pr_files' = <<>> THEN "done" ELSE "fetch"
             /\ UNCHANGED <<GITHUB_ACTIONS, idx, flake8_out, review_comments,
                            fix_pr_number, branches, log, fetch_log, cur, fixVars>>

\* lines 281-285: repo.get_contents(...).decoded_content.decode()
FetchContent ==
    /\ pc = "fetch"
    /\ \E out \in HostOutcomes :
        /\ fetch_log' = Append(fetch_log, pr_files[idx])
        /\ CASE out = "ok" ->
                  \E v \in FileVersions :
                      /\ file_content' = v.content
                      /\ flake8_out' = v.report
                      /\ cur' = [NewCur EXCEPT !.path = pr_files[idx], !.fetch = "ok"]
                      /\ pc' = "review"
                      /\ UNCHANGED <<GITHUB_ACTIONS, pr_files, idx, review_comments,
                                     fix_pr_number, branches, log, events,
                                     issues, fix_result, fpc, lines, fixed_lines,
                                     comments, pos>>
             [] out = "GithubException" ->
                  /\ cur' = [NewCur EXCEPT !.path = pr_files[idx], !.fetch = "failed"]
                  /\ events' = events \cup {"host_error"}
                  /\ idx' = idx + 1
                  /\ pc' = OnFetchError(idx, Len(pr_files))
                  /\ UNCHANGED <<GITHUB_ACTIONS, pr_files, flake8_out, review_comments,
                                 fix_pr_number, branches, log, fixVars>>
             [] out = "Exception" -> Abort

\* lines 159-177 and 288: review_task_func(file_content, file.filename)
ReviewTask ==
    /\ pc = "review"
    /\ \E r \in run_linter(flake8_out), llm \in {"ok", "Exception"} :
        /\ (r = <<>> => llm = "ok")
        /\ cur' = [cur EXCEPT !.lint_runs = @ + 1,
                              !.review_saw = IF r = <<>> THEN "empty" ELSE "findings",
                              !.llm_calls = IF r = <<>> THEN @ ELSE @ + 1]
        /\ review_comments' =
               IF r = <<>> THEN NoIssuesFound(pr_files[idx])
               ELSE IF llm = "ok" THEN LLMResponse(pr_files[idx])
               ELSE FailedToGenerate(pr_files[idx])
        /\ events' = IF llm = "ok" THEN events ELSE events \cup {"llm_error"}
    /\ pc' = "post_review"
    /\ UNCHANGED <<GITHUB_ACTIONS, pr_files, idx, flake8_out, fix_pr_number, branches,
                   log, fetch_log, fixVars>>

\* lines 291-295: the review is posted as an issue comment
PostReview ==
    /\ pc = "post_review"
    /\ \E out \in HostOutcomes :
        CASE out = "ok" ->
                 /\ log' = Append(log, LogEntry("create_issue_comment", pr_files[idx],
                                                review_comments.kind))
                 /\ cur' = [cur EXCEPT !.posts = @ + 1, !.review_post = "ok"]
                 /\ pc' = "lint"
                 /\ UNCHANGED <<GITHUB_ACTIONS, pr_files, idx, flake8_out, review_comments,
                                fix_pr_number, branches, fetch_log, events, fixVars>>
          [] out = "GithubException" ->
                 /\ events' = events \cup {"host_error"}
                 /\ cur' = [cur EXCEPT !.posts = @ + 1, !.review_post = "failed"]
                 /\ pc' = "lint"
                 /\ UNCHANGED <<GITHUB_ACTIONS, pr_files, idx, flake8_out, review_comments,
                                fix_pr_number, branches, log, fetch_log, fixVars>>
          [] out = "Exception" -> Abort /\ UNCHANGED fetch_log

\* lines 298-301: run_linter again, and continue when it returns nothing
LintForFix ==
    /\ pc = "lint"
    /\ \E r \in run_linter(flake8_out) :
        /\ issues' = r
        /\ cur' = [cur EXCEPT !.lint_runs = @ + 1]
        /\ IF r = <<>> THEN NextFile ELSE pc' = "fix" /\ idx' = idx
    /\ UNCHANGED <<GITHUB_ACTIONS, pr_files, flake8_out, review_comments, fix_pr_number,
                   branches, log, fetch_log, events,
                   file_content, fix_result, fpc, lines, fixed_lines, comments, pos>>

\* lines 304-308: fix_task_func, and the test of its comments
FixTask ==
    /\ pc = "fix"
    /\ fix_result' = fix_task_func(file_content, issues)
    /\ cur' = [cur EXCEPT !.fix_calls = @ + 1]
    /\ IF HasFixes(fix_result'.comments)
       THEN pc' = "confirm" /\ idx' = idx
       ELSE NextFile
    /\ UNCHANGED <<GITHUB_ACTIONS, pr_files, flake8_out, review_comments, fix_pr_number,
                   branches, log, fetch_log, events,
                   file_content, issues, fpc, lines, fixed_lines, comments, pos>>

\* create_fix_pr returns None (0): main tests it at line 310 and goes on.
ReturnNone(event) ==
    /\ fix_pr_number' = 0
    /\ events' = events \cup {event}
    /\ NextFile
    /\ UNCHANGED <<GITHUB_ACTIONS, pr_files, flake8_out, review_comments, branches,
                   log, fetch_log, cur, fixVars>>

\* One host call of create_fix_pr that writes nothing: it returns and
\* create_fix_pr goes on at `next`, or it raises.
ReadCall(next) ==
    \E out \in HostOutcomes :
        CASE out = "ok" ->
                 /\ pc' = next
                 /\ UNCHANGED <<GITHUB_ACTIONS, pr_files, idx, flake8_out, review_comments,
                                fix_pr_number, branches, log, fetch_log, events, cur,
                                fixVars>>
          [] out = "GithubException" -> ReturnNone("host_error")
          [] out = "Exception" -> Abort /\ UNCHANGED fetch_log

\* lines 209-220 and 309: create_fix_pr is called; outside CI it asks first
\* (a missing inquirer counts as yes)
Confirm ==
    /\ pc = "confirm"
    /\ \E answer \in {"yes", "no"} :
        /\ (GITHUB_ACTIONS => answer = "yes")
        /\ cur' = [cur EXCEPT !.fixpr_calls = @ + 1]
        /\ IF answer = "yes"
           THEN /\ pc' = "fp_get_pull"
                /\ UNCHANGED <<idx, fix_pr_number, events>>
           ELSE /\ fix_pr_number' = 0
                /\ events' = events \cup {"declined"}
                /\ NextFile
    /\ UNCHANGED <<GITHUB_ACTIONS, pr_files, flake8_out, review_comments, branches,
                   log, fetch_log, fixVars>>

\* line 223: repo.get_pull(pr_number)
FpGetPull == pc = "fp_get_pull" /\ ReadCall("fp_create_ref")

\* lines 224-230: the branch name, and repo.create_git_ref; the host rejects
\* a ref that exists
FpCreateRef ==
    /\ pc = "fp_create_ref"
    /\ LET name == BranchName(PR_NUMBER, pr_files[idx])
       IN  IF name \in branches THEN ReturnNone("ref_exists")
           ELSE \E out \in HostOutcomes :
               CASE out = "ok" ->
                        /\ branches' = branches \cup {name}
                        /\ log' = Append(log, LogEntry("create_git_ref", pr_files[idx], name))
                        /\ pc' = "fp_get_contents"
                        /\ UNCHANGED <<GITHUB_ACTIONS, pr_files, idx, flake8_out,
                                       review_comments, fix_pr_number, fetch_log, events,
                                       cur, fixVars>>
                 [] out = "GithubException" -> ReturnNone("host_error")
                 [] out = "Exception" -> Abort /\ UNCHANGED fetch_log

\* lines 233-238: repo.get_contents for the sha
FpGetContents == pc = "fp_get_contents" /\ ReadCall("fp_update_file")

\* lines 241-247: repo.update_file on the branch
FpUpdateFile ==
    /\ pc = "fp_update_file"
    /\ \E out \in HostOutcomes :
        CASE out = "ok" ->
                 /\ log' = Append(log, LogEntry("update_file", pr_files[idx],
                                                fix_result.fixed_content))
                 /\ pc' = "fp_create_pull"
                 /\ UNCHANGED <<GITHUB_ACTIONS, pr_files, idx, flake8_out, review_comments,
                                fix_pr_number, branches, fetch_log, events, cur, fixVars>>
          [] out = "GithubException" -> ReturnNone("host_error")
          [] out = "Exception" -> Abort /\ UNCHANGED fetch_log

\* lines 250-258 and 310: repo.create_pull; its number is returned and is truthy
FpCreatePull ==
    /\ pc = "fp_create_pull"
    /\ \E out \in HostOutcomes :
        CASE out = "ok" ->
                 /\ log' = Append(log, LogEntry("create_pull", pr_files[idx],
                                                fix_result.comments))
                 /\ fix_pr_number' = PR_NUMBER + PullsCreated + 1
                 /\ pc' = "post_fix"
                 /\ UNCHANGED <<GITHUB_ACTIONS, pr_files, idx, flake8_out, review_comments,
                                branches, fetch_log, events, cur, fixVars>>
          [] out = "GithubException" -> ReturnNone("host_error")
          [] out = "Exception" -> Abort /\ UNCHANGED fetch_log

\* lines 311-317: the link to the fix pull request is posted
PostFixLink ==
    /\ pc = "post_fix"
    /\ \E out \in HostOutcomes :
        CASE out = "ok" ->
                 /\ log' = Append(log, LogEntry("create_issue_comment", pr_files[idx],
                                                "fix_link"))
                 /\ cur' = [cur EXCEPT !.posts = @ + 1]
                 /\ NextFile
                 /\ UNCHANGED <<GITHUB_ACTIONS, pr_files, flake8_out, review_comments,
                                fix_pr_number, branches, fetch_log, events, fixVars>>
          [] out = "GithubException" ->
                 /\ events' = events \cup {"host_error"}
                 /\ cur' = [cur EXCEPT !.posts = @ + 1]
                 /\ NextFile
                 /\ UNCHANGED <<GITHUB_ACTIONS, pr_files, flake8_out, review_comments,
                                fix_pr_number, branches, log, fetch_log, fixVars>>
          [] out = "Exception" -> Abort /\ UNCHANGED fetch_log

\* The state when main is called: the module level (lines 13-101) has run.
Init ==
    /\ GITHUB_ACTIONS \in BOOLEAN
    /\ pc = "start"
    /\ pr_files = <<>>
    /\ idx = 1
    /\ flake8_out = <<>>
    /\ review_comments = NoReview
    /\ fix_pr_number = 0
    /\ branches = {}
    /\ log = <<>>
    /\ fetch_log = <<>>
    /\ events = {}
    /\ cur = NewCur
    /\ file_content = <<>>
    /\ issues = <<>>
    /\ fpc = "idle"
    /\ lines = <<>>
    /\ fixed_lines = <<>>
    /\ comments = <<>>
    /\ pos = 1
    /\ fix_result = NoResult

Next ==
    \/ GetPrFiles
    \/ FetchContent
    \/ ReviewTask
    \/ PostReview
    \/ LintForFix
    \/ FixTask
    \/ Confirm
    \/ FpGetPull
    \/ FpCreateRef
    \/ FpGetContents
    \/ FpUpdateFile
    \/ FpCreatePull
    \/ PostFixLink

Spec == Init /\ [][Next]_vars

\* ------------------------------------------------- claims on fix_task_func
\* The finding line is one the unused-variable rule fixes (lines 194-196).
IsUnusedFix(issue) ==
    /\ ReMatch(issue)
    /\ issue.code = "F841"
    /\ ~HasUndefinedName(issue.text)
    /\ QuotedName(issue.text) # ""

\* The finding line is one the missing-docstring rule fixes (line 200).
IsDocstringFix(issue) ==
    /\ ReMatch(issue)
    /\ issue.code = "D100"
    /\ HasMissingDocstring(issue.text)

Returned == fpc = "done" /\ fix_result.returned

\* Number of lines the output has more than the input.
Inserted == Len(fixed_lines) - Len(lines)

\* C2 (as stated): when fix_task_func has returned, every unused-variable
\* finding for a 0-based line L inside the file has the original line L,
\* wherever the output holds it, replaced by the comment prefix followed by
\* the original line, and comments holds the note for line L+1 and the name,
\* whatever else the list holds.
C2_UnusedVariableFixed ==
    Returned =>
        \A j \in 1..Len(issues) :
            (IsUnusedFix(issues[j]) /\ issues[j].row >= 1 /\ issues[j].row <= Len(lines)) =>
                /\ fix_result.fixed_content = join(fixed_lines)
                /\ Inserted >= 0
                /\ fixed_lines[issues[j].row + Inserted]
                       = <<RemovedPrefix>> \o lines[issues[j].row]
                /\ \E c \in 1..Len(fix_result.comments) :
                       fix_result.comments[c]
                           = RemovedNote(issues[j].row, QuotedName(issues[j].text))

\* C3 (as stated): when fix_task_func has returned and the list holds a
\* missing-docstring finding, the output is the placeholder as first line
\* followed by every original line, each shifted down by exactly one (as it
\* was, or commented out by an unused-variable fix), and comments holds
\* 'Line 1: Added missing docstring'.
C3_DocstringInserted ==
    (Returned /\ \E j \in 1..Len(issues) : IsDocstringFix(issues[j])) =>
        /\ fix_result.fixed_content = join(fixed_lines)
        /\ Len(fixed_lines) = Len(lines) + 1
        /\ fixed_lines[1] = <<Docstring>>
        /\ \A k \in 1..Len(lines) :
               fixed_lines[k + 1] \in {lines[k], <<RemovedPrefix>> \o lines[k]}
        /\ \E c \in 1..Len(fix_result.comments) : fix_result.comments[c] = DocstringNote

\* The loop is about to handle a matching finding line.
AtFinding == fpc = "loop" /\ pos <= Len(issues) /\ ReMatch(issues[pos])

\* The step changes neither the output lines nor the notes and stays in the loop.
NoEffect == fixed_lines' = fixed_lines /\ comments' = comments /\ fpc' = "loop"

\* C4 (as stated): a finding whose parsed row is greater than or equal to
\* the number of lines n changes no output line and adds no note.
C4_RowAtLeastCountIgnored ==
    [][(AtFinding /\ issues[pos].row >= Len(lines)) => NoEffect]_vars

\* C4 (amended): a finding whose parsed row is greater than the number of
\* lines n (its 0-based index row-1 is at least n) changes no output line and
\* adds no note, whatever its code; the finding for row n is for the last
\* line and is applied.
C4_RowBeyondCountIgnored ==
    [][(AtFinding /\ issues[pos].row > Len(lines)) => NoEffect]_vars

\* C4 witness: a fixable finding beyond the last line of a non-empty file
\* has been handled.
C4_Witness ==
    /\ fpc \in {"loop", "done"}
    /\ pos >= 2
    /\ Len(lines) >= 1
    /\ (IsUnusedFix(issues[1]) \/ IsDocstringFix(issues[1]))
    /\ issues[1].row > Len(lines)

\* C5 (as stated): with no finding line matching the record pattern, the
\* returned fixed_content is the input text itself and comments is empty.
C5_NoMatchUnchanged ==
    (Returned /\ \A j \in 1..Len(issues) : ~ReMatch(issues[j])) =>
        /\ fix_result.fixed_content = file_content
        /\ fix_result.comments = <<>>

\* The range test uses the entry-time line count: a finding for a row beyond
\* it has no effect, however many lines were inserted.  An in-range
\* unused-variable finding for row N writes the prefixed entry-time text of
\* line N at position N of the current output (0-based N-1), unshifted, adds
\* its note and leaves the snapshot alone.
C8_StepOnSnapshot ==
    /\ (AtFinding /\ issues[pos].row > Len(lines)) => NoEffect
    /\ (AtFinding /\ IsUnusedFix(issues[pos])
            /\ issues[pos].row >= 1 /\ issues[pos].row <= Len(lines)) =>
           /\ fixed_lines' = [fixed_lines EXCEPT ![issues[pos].row] =
                                  <<RemovedPrefix>> \o lines[issues[pos].row]]
           /\ comments' = Append(comments,
                                 RemovedNote(issues[pos].row, QuotedName(issues[pos].text)))
           /\ lines' = lines

\* A docstring finding and then an unused-variable finding for row N: the
\* shifted output has position N overwritten.
C8_AfterDocstring ==
    (Returned /\ Len(issues) = 2
        /\ IsDocstringFix(issues[1]) /\ issues[1].row <= Len(lines)
        /\ IsUnusedFix(issues[2]) /\ issues[2].row >= 1 /\ issues[2].row <= Len(lines)) =>
        /\ fix_result.fixed_content =
               join([InsertFront(lines, <<Docstring>>) EXCEPT ![issues[2].row] =
                         <<RemovedPrefix>> \o lines[issues[2].row]])
        /\ fix_result.comments =
               <<DocstringNote, RemovedNote(issues[2].row, QuotedName(issues[2].text))>>

\* Two unused-variable findings for one row: one single-prefixed line, two notes.
C8_SameLineTwice ==
    (Returned /\ Len(issues) = 2
        /\ IsUnusedFix(issues[1]) /\ issues[1].row >= 1 /\ issues[1].row <= Len(lines)
        /\ issues[2] = issues[1]) =>
        /\ fix_result.fixed_content =
               join([lines EXCEPT ![issues[1].row] =
                         <<RemovedPrefix>> \o lines[issues[1].row]])
        /\ fix_result.comments =
               <<RemovedNote(issues[1].row, QuotedName(issues[1].text)),
                 RemovedNote(issues[1].row, QuotedName(issues[1].text))>>

\* C8: every fix works on the snapshot taken at entry.  The snapshot stays
\* the split input; an in-range unused-variable finding for row N writes the
\* prefixed entry-time text of line N at position N of the current output
\* (0-based N-1), unshifted, and adds its note; so a docstring finding
\* followed by an unused-variable finding for row N leaves the shifted output
\* with position N overwritten, and two unused-variable findings for one row
\* leave one single-prefixed line and two notes.
C8_SnapshotSemantics ==
    /\ [](fpc \in {"loop", "except", "done"} => lines = splitlines(file_content))
    /\ [](C8_AfterDocstring /\ C8_SameLineTwice)
    /\ [][C8_StepOnSnapshot]_vars

\* C8 witness: a docstring finding and then an unused-variable finding for
\* the second line of a two-line file with distinct lines have been applied.
C8_Witness ==
    /\ Returned
    /\ Len(issues) = 2
    /\ Len(lines) = 2
    /\ lines[1] # lines[2]
    /\ IsDocstringFix(issues[1]) /\ issues[1].row = 1
    /\ IsUnusedFix(issues[2]) /\ issues[2].row = 2

\* ---------------------------------------------------------- claims on main
Ended == pc \in {"done", "exit1"}

\* C1 (as stated): for a file whose review saw zero findings, the review
\* text is the success message with the file's path and fix_task_func is
\* never called for the file, whatever the second linter run returns.
C1_CleanFileNeverFixed ==
    cur.review_saw = "empty" =>
        /\ review_comments = NoIssuesFound(cur.path)
        /\ cur.fix_calls = 0

\* The finding list is exactly one unused-variable finding, for row k.
OneUnusedAt(report, k) == report = <<RecordLine(k, <<"F841", UnusedMsg>>)>>

\* The run handled one Python file, both linter runs returned the one
\* unused-variable finding flake8 prints for it, and nothing failed or was
\* declined.
C6_Scenario ==
    /\ Len(pr_files) = 1
    /\ events = {}
    /\ cur.review_saw = "findings"
    /\ cur.lint_runs = 2
    /\ issues = flake8_out
    /\ \E k \in 1..MaxRow : OneUnusedAt(flake8_out, k)

C6_Expected(k) ==
    LET ls == splitlines(file_content)
        fixed == join([ls EXCEPT ![k] = <<RemovedPrefix>> \o ls[k]])
        notes == <<RemovedNote(k, "x")>>
        path == pr_files[1]
    IN  /\ fix_result = [fixed_content |-> fixed, comments |-> notes, returned |-> TRUE]
        /\ log = <<LogEntry("create_issue_comment", path, "llm"),
                   LogEntry("create_git_ref", path, BranchName(PR_NUMBER, path)),
                   LogEntry("update_file", path, fixed),
                   LogEntry("create_pull", path, notes),
                   LogEntry("create_issue_comment", path, "fix_link")>>
        /\ branches = {BranchName(PR_NUMBER, path)}
        /\ fix_pr_number > 0

\* C6: in the end-to-end scenario (one Python file, every linter run
\* returning one unused-variable finding for row k, nothing failing, nothing
\* declined) the run ends normally having made exactly these writes in this
\* order: the review comment, one fix branch, one file update holding the
\* content with line k commented out, one fix pull request carrying the single
\* note for line k, and the comment with the link; and until it has ended it
\* can always take its next step.
C6_EndToEnd ==
    /\ (Ended /\ C6_Scenario) =>
           /\ pc = "done"
           /\ \A k \in 1..MaxRow : OneUnusedAt(flake8_out, k) => C6_Expected(k)
    /\ (~Ended /\ events = {}) => ENABLED Next

\* C6 witness: the scenario has run to its end for a finding on line 2.
C6_Witness ==
    /\ pc = "done"
    /\ C6_Scenario
    /\ OneUnusedAt(flake8_out, 2)
    /\ Len(log) = 5

\* C7: when the host call in get_pr_files fails with a host-API error, main
\* has ended normally and nothing else was called: no content fetch, no
\* linter run, no LLM call, no comment, no branch, no pull request.
C7_ListFailureStops ==
    "list_failed" \in events =>
        /\ pc = "done"
        /\ events = {"list_failed"}
        /\ pr_files = <<>>
        /\ fetch_log = <<>>
        /\ log = <<>>
        /\ branches = {}
        /\ cur = NewCur

\* C7 witness: the listing failed and main returned.
C7_Witness == "list_failed" \in events /\ pc = "done"

\* The fetches attempted are the listed files in listed order, each once,
\* and all of them when main has returned.
C9_FetchOrder ==
    /\ Len(fetch_log) <= Len(pr_files)
    /\ fetch_log = SubSeq(pr_files, 1, Len(fetch_log))
    /\ (pc = "done" /\ "list_failed" \notin events) => fetch_log = pr_files

\* main reaches exit(1) only through an exception that is no host-API error,
\* and until it has ended it can take a step.
C9_EndsNormally ==
    /\ pc = "exit1" => "exception" \in events
    /\ ~Ended => ENABLED Next

\* A file whose fetch failed gets nothing else.
C9_FailedFetchSkipsFile ==
    cur.fetch = "failed" =>
        /\ cur.lint_runs = 0 /\ cur.llm_calls = 0 /\ cur.posts = 0
        /\ cur.fix_calls = 0 /\ cur.fixpr_calls = 0
        /\ \A e \in 1..Len(log) : log[e].file # cur.path

\* The iteration for the file cur describes is over and nothing was raised
\* to main's handler.
FileOver == pc \in {"fetch", "done"} /\ cur.fetch = "ok"

\* A failed review post does not stop the fix steps of the file.
C9_FailedPostGoesOn ==
    (FileOver /\ cur.review_post = "failed") =>
        /\ cur.lint_runs = 2
        /\ (issues # <<>> => cur.fix_calls = 1)
        /\ ((issues # <<>> /\ fix_result.comments # <<>>) => cur.fixpr_calls = 1)

\* C9: under every pattern of host-API errors in the per-file steps, the
\* content fetches attempted are the listed files in listed order, each once,
\* and all of them when main has returned; main reaches exit(1) only through
\* an exception that is no host-API error and can otherwise always go on; a
\* file whose fetch failed gets no linter run, no review, no comment and no
\* fix pull request; and after a failed review post the file still gets its
\* second linter run, and with findings the fixer, and with fixes
\* create_fix_pr.
C9_PerFileFailuresRecoverable ==
    /\ C9_FetchOrder
    /\ C9_EndsNormally
    /\ C9_FailedFetchSkipsFile
    /\ C9_FailedPostGoesOn

\* C9 witness: a run of two files has returned, the second file's fetch
\* having failed after the first file's review post failed and its fix pull
\* request was created.
C9_Witness ==
    /\ pc = "done"
    /\ Len(fetch_log) = 2
    /\ cur.fetch = "failed"
    /\ \E e \in 1..Len(log) : log[e].op = "create_pull"
    /\ \A e \in 1..Len(log) : ~(log[e].op = "create_issue_comment" /\ log[e].what # "fix_link")

\* C10 (as stated): the branch name create_fix_pr derives for a file differs
\* from the name of every branch created for another file of the run, and no
\* create_git_ref of the run is rejected because the ref exists.
C10_DistinctBranchNames ==
    /\ pc = "fp_create_ref" =>
           \A e \in 1..Len(log) :
               (log[e].op = "create_git_ref" /\ log[e].file # pr_files[idx]) =>
                   log[e].what # BranchName(PR_NUMBER, pr_files[idx])
    /\ "ref_exists" \notin events

====
